---- MODULE Spec2Model ----
(***************************************************************************)
(* The binary codecs of diesel/src/types/impls/floats/mod.rs: FromSql and  *)
(* ToSql for f32, f64 and PgNumeric.  A call is drawn in Init (function    *)
(* and arguments), one action per function applies it, and a second call  *)
(* decodes the bytes that the first one put into its sink.                 *)
(*                                                                         *)
(* Values.  A byte is 0..255.  An f32 / f64 is its IEEE-754 bit pattern, a *)
(* sequence of 32 / 64 bits, most significant (the sign) first.  An i16 is *)
(* an integer of -32768..32767, a u16 one of 0..65535.  Option and Result  *)
(* are records: [some], [ok].  A Vec or slice is a record [head, pat, rep]:*)
(* the elements of head followed by rep repetitions of the elements of     *)
(* pat, which keeps a vector longer than u16::MAX small in a state.        *)
(***************************************************************************)
EXTENDS Integers, Sequences, FiniteSets, TLC

VARIABLES call, pc, self, sink, out, calls, bytes, ret, consumed, back

vars == <<call, pc, self, sink, out, calls, bytes, ret, consumed, back>>

\* ------------------------------------------------------------- bounds
\* Longest digit sequence of the enumerated decimal values and buffers.
MaxLen == 3
\* Largest room, in bytes, of a sink that can fill up.
MaxRoom == 10

\* ------------------------------------------------------ Option, Result
None == [some |-> FALSE]
Some(b) == [some |-> TRUE, val |-> b]

Ok(v) == [ok |-> TRUE, val |-> v]
Err(e) == [ok |-> FALSE, err |-> e]

\* types::IsNull::No, the only marker these impls return.
IsNullNo == "IsNull::No"
IsNullYes == "IsNull::Yes"

\* super::option::UnexpectedNullError, boxed by not_none!.
UnexpectedNullError == [kind |-> "UnexpectedNullError"]
\* The io::Error a byteorder read gives on a short slice.
UnexpectedEof == [kind |-> "io", err |-> "UnexpectedEof"]
\* struct InvalidNumericSign(u16)
InvalidNumericSign(raw) == [kind |-> "InvalidNumericSign", raw |-> raw]
\* An io::Error of the sink, boxed unchanged by try! / map_err.
IoError(e) == [kind |-> "io", err |-> e]

\* not_none!(bytes): the slice, or an early return of UnexpectedNullError.
not_none(b) == IF b.some THEN Ok(b.val) ELSE Err(UnexpectedNullError)

\* ------------------------------------------------------- Vec<T>, &[T]
\* The vector of the elements of h.
Vec(h) == [head |-> h, pat |-> <<>>, rep |-> 0]
\* h followed by k copies of p.
Repeat(h, p, k) == [head |-> h, pat |-> p, rep |-> k]
\* v.len()
VLen(v) == Len(v.head) + v.rep * Len(v.pat)
\* v[i - 1]
VAt(v, i) ==
    IF i <= Len(v.head) THEN v.head[i]
    ELSE v.pat[((i - Len(v.head) - 1) % Len(v.pat)) + 1]
\* &v[..k]
VTake(v, k) == Vec([i \in 1..k |-> VAt(v, i)])
\* v.push(x), of a vector built by pushes
VPush(v, x) == Vec(Append(v.head, x))
\* PartialEq of two vectors: same length, same elements in order.
VSame(a, b) == VLen(a) = VLen(b) /\ \A i \in 1..VLen(a) : VAt(a, i) = VAt(b, i)

\* ------------------------------------------------------- integer casts
\* `x as u16` of an i16 or a usize: the low 16 bits.
as_u16(x) == x % 65536
\* `x as i16` of a u16: two's complement.
as_i16(u) == IF u >= 32768 THEN u - 65536 ELSE u

Min(a, b) == IF a <= b THEN a ELSE b

\* ------------------------------------------------------- PgNumeric
Positive(w, s, d) == [tag |-> "Positive", weight |-> w, scale |-> s, digits |-> d]
Negative(w, s, d) == [tag |-> "Negative", weight |-> w, scale |-> s, digits |-> d]
NaN == [tag |-> "NaN"]

\* ------------------------------------------------- byteorder reads
\* A reader is a buffer and the number of bytes already taken from it.  A
\* read that finds too few bytes fails with UnexpectedEof and leaves the
\* reader at the end of the buffer: read_exact on &[u8] takes the fragment.
read_u16(buf, pos) ==
    IF VLen(buf) - pos < 2
    THEN [ok |-> FALSE, err |-> UnexpectedEof, pos |-> VLen(buf)]
    ELSE [ok |-> TRUE, val |-> VAt(buf, pos + 1) * 256 + VAt(buf, pos + 2),
          pos |-> pos + 2]

read_i16(buf, pos) ==
    LET r == read_u16(buf, pos)
    IN  IF r.ok THEN [ok |-> TRUE, val |-> as_i16(r.val), pos |-> r.pos] ELSE r

\* Bit i (1 = most significant) of the big-endian bytes buf[pos+1 ..].
BitOfBytes(buf, pos, i) ==
    (VAt(buf, pos + ((i - 1) \div 8) + 1) \div (2 ^ (7 - ((i - 1) % 8)))) % 2

read_bits(buf, pos, n) ==
    IF VLen(buf) - pos < n \div 8
    THEN [ok |-> FALSE, err |-> UnexpectedEof, pos |-> VLen(buf)]
    ELSE [ok |-> TRUE, val |-> [i \in 1..n |-> BitOfBytes(buf, pos, i)],
          pos |-> pos + n \div 8]

read_f32(buf, pos) == read_bits(buf, pos, 32)
read_f64(buf, pos) == read_bits(buf, pos, 64)

\* ------------------------------------------------- byteorder writes
\* The bytes one write call hands to the sink.
be_u16(n) == <<n \div 256, n % 256>>
be_i16(i) == be_u16(as_u16(i))

\* Byte k (1 = first on the wire) of a bit pattern.
ByteOfBits(v, k) ==
    LET b(j) == v[8 * (k - 1) + j]
    IN  b(1) * 128 + b(2) * 64 + b(3) * 32 + b(4) * 16
        + b(5) * 8 + b(6) * 4 + b(7) * 2 + b(8)

be_bits(v) == [k \in 1..(Len(v) \div 8) |-> ByteOfBits(v, k)]

\* ------------------------------------------------------------- sinks
\* W: Write.  "vec" is Vec<u8>, which takes every write.  "slice" is
\* &mut [u8] of `room` bytes: a write that does not fit copies what fits and
\* write_all fails with WriteZero.  "failing" takes writes while they fit in
\* `room` bytes and refuses any other whole, with its own error.
VecSink == [kind |-> "vec"]
SliceSink(n) == [kind |-> "slice", room |-> n]
FailingSink(n, e) == [kind |-> "failing", room |-> n, err |-> e]

SinkError(s) == IF s.kind = "slice" THEN IoError("WriteZero") ELSE IoError(s.err)

\* The write calls `fields` (a vector of the byte strings written, each w
\* bytes) made in order on sink s, every one under try!: the calls stop at
\* the first one the sink fails.
\* accepted = the number of calls that succeeded, calls = the number made.
Accepted(s, fields, w) ==
    IF s.kind = "vec" THEN VLen(fields) ELSE Min(VLen(fields), s.room \div w)

\* The bytes of the byte strings fs, one after the other.
Flat(fs, w) == [i \in 1..(Len(fs) * w) |-> fs[((i - 1) \div w) + 1][((i - 1) % w) + 1]]

WriteEach(s, fields, w) ==
    LET n == Accepted(s, fields, w)
        whole == Repeat(Flat(fields.head, w), Flat(fields.pat, w), fields.rep)
    IN  [ok |-> n = VLen(fields),
         out |-> IF n = VLen(fields) THEN whole
                 ELSE VTake(whole, IF s.kind = "slice" THEN s.room ELSE n * w),
         accepted |-> n,
         calls |-> IF n = VLen(fields) THEN n ELSE n + 1]

\* ------------------------------------------------------------ f32, f64
\* Mutant: an absent buffer taken for an empty one (bytes.unwrap_or(&[])).
f32_from_sql_unwrap(b) ==
    LET r == read_f32(IF b.some THEN b.val ELSE Vec(<<>>), 0)
    IN  IF r.ok THEN [ret |-> Ok(r.val), consumed |-> r.pos]
        ELSE [ret |-> Err(r.err), consumed |-> r.pos]

\* impl FromSql<types::Float, DB> for f32
f32_from_sql(b) ==
    LET some == not_none(b)
    IN  IF ~some.ok THEN [ret |-> Err(some.err), consumed |-> 0]
        ELSE LET r == read_f32(some.val, 0)
             IN  IF r.ok THEN [ret |-> Ok(r.val), consumed |-> r.pos]
                 ELSE [ret |-> Err(r.err), consumed |-> r.pos]

\* impl ToSql<types::Float, DB> for f32
f32_to_sql(v, s) ==
    LET w == WriteEach(s, Vec(<<be_bits(v)>>), 4)
    IN  [ret |-> IF w.ok THEN Ok(IsNullNo) ELSE Err(SinkError(s)),
         out |-> w.out, calls |-> w.calls]

\* impl FromSql<types::Double, DB> for f64
f64_from_sql(b) ==
    LET some == not_none(b)
    IN  IF ~some.ok THEN [ret |-> Err(some.err), consumed |-> 0]
        ELSE LET r == read_f64(some.val, 0)
             IN  IF r.ok THEN [ret |-> Ok(r.val), consumed |-> r.pos]
                 ELSE [ret |-> Err(r.err), consumed |-> r.pos]

\* Mutant: write_f64::<LittleEndian>.
f64_to_sql_little_endian(v, s) ==
    LET be == be_bits(v)
        w == WriteEach(s, Vec(<<[k \in 1..8 |-> be[9 - k]]>>), 8)
    IN  [ret |-> IF w.ok THEN Ok(IsNullNo) ELSE Err(SinkError(s)),
         out |-> w.out, calls |-> w.calls]

\* impl ToSql<types::Double, DB> for f64
f64_to_sql(v, s) ==
    LET w == WriteEach(s, Vec(<<be_bits(v)>>), 8)
    IN  [ret |-> IF w.ok THEN Ok(IsNullNo) ELSE Err(SinkError(s)),
         out |-> w.out, calls |-> w.calls]

\* ------------------------------------------------- PgNumeric::from_sql
\* Mutant: the loop ends at the end of the buffer and keeps what it read.
read_digits_lenient(buf, pos, n, digits) ==
    LET k == Min(n, (VLen(buf) - pos) \div 2)
    IN  [ok |-> TRUE,
         val |-> Vec(digits.head \o [i \in 1..k |-> read_i16(buf, pos + 2 * (i - 1)).val]),
         pos |-> pos + 2 * k]

\* for _ in 0..ndigits { digits.push(try!(bytes.read_i16::<BigEndian>())); }
RECURSIVE read_digits(_, _, _, _)
read_digits(buf, pos, n, digits) ==
    IF n = 0 THEN [ok |-> TRUE, val |-> digits, pos |-> pos]
    ELSE LET r == read_i16(buf, pos)
         IN  IF ~r.ok THEN [ok |-> FALSE, err |-> r.err, pos |-> r.pos]
             ELSE read_digits(buf, r.pos, n - 1, VPush(digits, r.val))

\* Mutant: an unknown sign taken for NaN.
match_sign_lenient(sign, weight, scale, digits) ==
    CASE sign = 0 -> Ok(Positive(weight, scale, digits))
      [] sign = 16384 -> Ok(Negative(weight, scale, digits))
      [] OTHER -> Ok(NaN)

\* Mutant: NaN accepted only with an empty message (no digits, weight 0, scale 0).
match_sign_strict_nan(sign, weight, scale, digits) ==
    CASE sign = 0 -> Ok(Positive(weight, scale, digits))
      [] sign = 16384 -> Ok(Negative(weight, scale, digits))
      [] sign = 49152 /\ VLen(digits) = 0 /\ weight = 0 /\ scale = 0 -> Ok(NaN)
      [] OTHER -> Err(InvalidNumericSign(sign))

\* match sign { 0 => .., 0x4000 => .., 0xC000 => .., invalid => Err(..) }
match_sign(sign, weight, scale, digits) ==
    CASE sign = 0 -> Ok(Positive(weight, scale, digits))
      [] sign = 16384 -> Ok(Negative(weight, scale, digits))
      [] sign = 49152 -> Ok(NaN)
      [] OTHER -> Err(InvalidNumericSign(sign))

\* Mutant: the sign is checked as soon as the header is read.
PgNumeric_from_sql_sign_first(b) ==
    LET some == not_none(b)
    IN  IF ~some.ok THEN [ret |-> Err(some.err), consumed |-> 0] ELSE
        LET buf == some.val
            ndigits == read_u16(buf, 0)
        IN  IF ~ndigits.ok THEN [ret |-> Err(ndigits.err), consumed |-> ndigits.pos] ELSE
        LET weight == read_i16(buf, ndigits.pos)
        IN  IF ~weight.ok THEN [ret |-> Err(weight.err), consumed |-> weight.pos] ELSE
        LET sign == read_u16(buf, weight.pos)
        IN  IF ~sign.ok THEN [ret |-> Err(sign.err), consumed |-> sign.pos] ELSE
        LET scale == read_u16(buf, sign.pos)
        IN  IF ~scale.ok THEN [ret |-> Err(scale.err), consumed |-> scale.pos] ELSE
            IF sign.val \notin {0, 16384, 49152}
            THEN [ret |-> Err(InvalidNumericSign(sign.val)), consumed |-> scale.pos] ELSE
        LET digits == read_digits(buf, scale.pos, ndigits.val, Vec(<<>>))
        IN  IF ~digits.ok THEN [ret |-> Err(digits.err), consumed |-> digits.pos] ELSE
            [ret |-> match_sign(sign.val, weight.val, scale.val, digits.val),
             consumed |-> digits.pos]

\* impl FromSql<types::Numeric, Pg> for PgNumeric
PgNumeric_from_sql(b) ==
    LET some == not_none(b)
    IN  IF ~some.ok THEN [ret |-> Err(some.err), consumed |-> 0] ELSE
        LET buf == some.val
            ndigits == read_u16(buf, 0)
        IN  IF ~ndigits.ok THEN [ret |-> Err(ndigits.err), consumed |-> ndigits.pos] ELSE
        LET weight == read_i16(buf, ndigits.pos)
        IN  IF ~weight.ok THEN [ret |-> Err(weight.err), consumed |-> weight.pos] ELSE
        LET sign == read_u16(buf, weight.pos)
        IN  IF ~sign.ok THEN [ret |-> Err(sign.err), consumed |-> sign.pos] ELSE
        LET scale == read_u16(buf, sign.pos)
        IN  IF ~scale.ok THEN [ret |-> Err(scale.err), consumed |-> scale.pos] ELSE
        LET digits == read_digits(buf, scale.pos, ndigits.val, Vec(<<>>))
        IN  IF ~digits.ok THEN [ret |-> Err(digits.err), consumed |-> digits.pos] ELSE
            [ret |-> match_sign(sign.val, weight.val, scale.val, digits.val),
             consumed |-> digits.pos]

\* --------------------------------------------------- PgNumeric::to_sql
\* Mutant: the signs of Negative and NaN exchanged.
to_sql_sign_swapped(v) ==
    CASE v.tag = "Positive" -> 0
      [] v.tag = "Negative" -> 49152
      [] v.tag = "NaN" -> 16384

\* let sign = match self { .. }
to_sql_sign(v) ==
    CASE v.tag = "Positive" -> 0
      [] v.tag = "Negative" -> 16384
      [] v.tag = "NaN" -> 49152

\* let digits = match self { .. }
to_sql_digits(v) == IF v.tag = "NaN" THEN Vec(<<>>) ELSE v.digits

\* let weight = match self { .. }
to_sql_weight(v) == IF v.tag = "NaN" THEN 0 ELSE v.weight

\* let scale = match self { .. }
to_sql_scale(v) == IF v.tag = "NaN" THEN 0 ELSE v.scale

\* The write calls of to_sql in program order, each the two bytes it writes.
to_sql_writes(v) ==
    LET digits == to_sql_digits(v)
        each(ds) == [i \in 1..Len(ds) |-> be_i16(ds[i])]
    IN  Repeat(<< be_u16(as_u16(VLen(digits))),
                  be_i16(to_sql_weight(v)),
                  be_u16(to_sql_sign(v)),
                  be_u16(to_sql_scale(v)) >> \o each(digits.head),
               each(digits.pat), digits.rep)

\* Mutant: the writes made without try!, their results dropped.
PgNumeric_to_sql_unchecked(v, s) ==
    LET w == WriteEach(s, to_sql_writes(v), 2)
    IN  [ret |-> Ok(IsNullNo), out |-> w.out, calls |-> VLen(to_sql_writes(v))]

\* impl ToSql<types::Numeric, Pg> for PgNumeric
PgNumeric_to_sql(v, s) ==
    LET w == WriteEach(s, to_sql_writes(v), 2)
    IN  [ret |-> IF w.ok THEN Ok(IsNullNo) ELSE Err(SinkError(s)),
         out |-> w.out, calls |-> w.calls]

\* -------------------------------------------------------------- inputs
SeqsUpTo(S, n) == UNION {[1..k -> S] : k \in 0..n}

\* The bits of n, w wide, most significant first.
NatBits(n, w) == [i \in 1..w |-> (n \div (2 ^ (w - i))) % 2]

\* sign, biased exponent, fraction
F32Of(s, e, m) == <<s>> \o NatBits(e, 8) \o NatBits(m, 23)
F32Vals ==
    {F32Of(s, e, m) : s \in 0..1, e \in {0, 1, 127, 128, 254, 255},
                      m \in {0, 1, 1193046, 2097152, 4194304, 8388607}}
\* 1.0f32
F32One == F32Of(0, 127, 0)

\* sign, biased exponent, fraction in three pieces of 20, 16 and 16 bits
F64Of(s, e, mh, mm, ml) ==
    <<s>> \o NatBits(e, 11) \o NatBits(mh, 20) \o NatBits(mm, 16) \o NatBits(ml, 16)
F64Vals ==
    {F64Of(s, e, mh, mm, ml) : s \in 0..1, e \in {0, 1, 1023, 2046, 2047},
                               mh \in {0, 1, 524288, 1048575},
                               mm \in {0, 4660, 65535}, ml \in {0, 1, 43981}}

Weights == {-32768, -1, 0, 2}
Scales == {0, 2, 65535}
DigitVals == {0, 1234, -1}
DigitSeqs == SeqsUpTo(DigitVals, MaxLen)
DigitVecs == {Vec(d) : d \in DigitSeqs}

ShortNumerics ==
    {NaN} \cup {Positive(w, s, d) : w \in Weights, s \in Scales, d \in DigitVecs}
          \cup {Negative(w, s, d) : w \in Weights, s \in Scales, d \in DigitVecs}

\* Vec<i16> is as long as the caller makes it: 65536 and 65537 digit groups.
LongDigitVecs ==
    {Repeat(<<>>, <<7>>, 65536), Repeat(<<1234>>, <<7>>, 65536),
     Repeat(<<1234, -1>>, <<0, 9999>>, 32767)}
LongNumerics ==
    {Positive(0, 2, d) : d \in LongDigitVecs} \cup {Negative(-1, 0, d) : d \in LongDigitVecs}

Sinks ==
    {VecSink} \cup {SliceSink(n) : n \in 0..MaxRoom}
              \cup {FailingSink(n, "BrokenPipe") : n \in 0..MaxRoom}

\* Buffers handed to from_sql: a NUMERIC message whose header says nd digit
\* groups and that carries the groups ds, cut after any number of bytes.
Prefixes(b) == {Vec(SubSeq(b, 1, k)) : k \in 0..Len(b)}
WireDigits(ds) == [i \in 1..(2 * Len(ds)) |-> be_i16(ds[(i + 1) \div 2])[((i - 1) % 2) + 1]]
NumericWire(nd, w, sg, sc, ds) ==
    be_u16(nd) \o be_i16(w) \o be_u16(sg) \o be_u16(sc) \o WireDigits(ds)
SignFields == {0, 16384, 49152, 4660, 32768, 1}
NumericBufs ==
    UNION {Prefixes(NumericWire(nd, w, sg, sc, ds)) :
             nd \in (0..(MaxLen + 1)) \cup {65535}, w \in {-1, 2},
             sg \in SignFields, sc \in {0, 2}, ds \in SeqsUpTo({1234, -1}, MaxLen)}
FloatBufs == UNION {Prefixes(be_bits(v) \o <<171>>) : v \in F64Vals}

\* ------------------------------------------------------- state machine
NoValue == [tag |-> "none"]
NoSink == [kind |-> "none"]
Pending == [ok |-> FALSE, err |-> [kind |-> "pending"]]

Start(c, v, s, b) ==
    /\ call = c /\ pc = "start"
    /\ self = v /\ sink = s /\ out = Vec(<<>>) /\ calls = 0
    /\ bytes = b
    /\ ret = Pending /\ consumed = 0 /\ back = Pending

Init ==
    \/ \E v \in F32Vals, s \in Sinks : Start("f32::to_sql", v, s, None)
    \/ \E v \in F64Vals, s \in Sinks : Start("f64::to_sql", v, s, None)
    \/ \E v \in ShortNumerics, s \in Sinks : Start("PgNumeric::to_sql", v, s, None)
    \/ \E v \in LongNumerics : Start("PgNumeric::to_sql", v, VecSink, None)
    \/ \E b \in {None} \cup {Some(x) : x \in FloatBufs} :
          \/ Start("f32::from_sql", NoValue, NoSink, b)
          \/ Start("f64::from_sql", NoValue, NoSink, b)
    \/ \E b \in {None} \cup {Some(x) : x \in NumericBufs} :
          Start("PgNumeric::from_sql", NoValue, NoSink, b)

ToSql(c, r) ==
    /\ pc = "start" /\ call = c
    /\ ret' = r.ret /\ out' = r.out /\ calls' = r.calls
    /\ pc' = "done"
    /\ UNCHANGED <<call, self, sink, bytes, consumed, back>>

FromSql(c, r) ==
    /\ pc = "start" /\ call = c
    /\ ret' = r.ret /\ consumed' = r.consumed
    /\ pc' = "done"
    /\ UNCHANGED <<call, self, sink, out, calls, bytes, back>>

\* The bytes the sink holds after to_sql are handed to from_sql.
ReadBack(c, r) ==
    /\ pc = "done" /\ call = c
    /\ bytes' = Some(out)
    /\ back' = r.ret /\ consumed' = r.consumed
    /\ pc' = "read_back"
    /\ UNCHANGED <<call, self, sink, out, calls, ret>>

F32ToSql == ToSql("f32::to_sql", f32_to_sql(self, sink))
F32FromSql == FromSql("f32::from_sql", f32_from_sql(bytes))
F32ReadBack == ReadBack("f32::to_sql", f32_from_sql(Some(out)))
F64ToSql == ToSql("f64::to_sql", f64_to_sql(self, sink))
F64FromSql == FromSql("f64::from_sql", f64_from_sql(bytes))
F64ReadBack == ReadBack("f64::to_sql", f64_from_sql(Some(out)))
NumericToSql == ToSql("PgNumeric::to_sql", PgNumeric_to_sql(self, sink))
NumericFromSql == FromSql("PgNumeric::from_sql", PgNumeric_from_sql(bytes))
NumericReadBack == ReadBack("PgNumeric::to_sql", PgNumeric_from_sql(Some(out)))

Next ==
    \/ F32ToSql \/ F32FromSql \/ F32ReadBack
    \/ F64ToSql \/ F64FromSql \/ F64ReadBack
    \/ NumericToSql \/ NumericFromSql \/ NumericReadBack

Spec == Init /\ [][Next]_vars

\* ------------------------------------------------------------ properties
\* What a buffer holds, read off its bytes.
U16At(b, k) == VAt(b, k) * 256 + VAt(b, k + 1)
I16At(b, k) == IF U16At(b, k) >= 32768 THEN U16At(b, k) - 65536 ELSE U16At(b, k)
Truncated == Err(UnexpectedEof)
KnownSigns == {0, 16384, 49152}
\* #[derive(PartialEq)] of PgNumeric
SameNumeric(a, b) ==
    /\ a.tag = b.tag
    /\ a.tag # "NaN" =>
          (a.weight = b.weight /\ a.scale = b.scale /\ VSame(a.digits, b.digits))

NumericEncoded == call = "PgNumeric::to_sql" /\ pc # "start"
NumericDecoded == call = "PgNumeric::from_sql" /\ pc = "done" /\ bytes.some
\* The buffer holds the four header fields ...
HasHeader == VLen(bytes.val) >= 8
\* ... and every digit group its header announces.
HasDigits == VLen(bytes.val) >= 8 + 2 * U16At(bytes.val, 1)

\* C1: a PgNumeric of any digit length, written by to_sql into a sink that
\* takes every write and read back by from_sql, comes back equal.
C1_DecimalRoundTrip ==
    (call = "PgNumeric::to_sql" /\ pc = "read_back" /\ sink.kind = "vec")
        => (back.ok /\ SameNumeric(back.val, self))

\* C2: for Positive and Negative, to_sql writes 8 + 2*len(d) bytes: ndigits
\* = len(d), weight, sign (0 or 0x4000), scale, then the digits in order,
\* all big-endian.
C2_EncodeLayout ==
    (NumericEncoded /\ sink.kind = "vec" /\ self.tag # "NaN") =>
        /\ VLen(out) = 8 + 2 * VLen(self.digits)
        /\ \A i \in 1..VLen(out) : VAt(out, i) \in 0..255
        /\ U16At(out, 1) = VLen(self.digits)
        /\ I16At(out, 3) = self.weight
        /\ U16At(out, 5) = (IF self.tag = "Positive" THEN 0 ELSE 16384)
        /\ U16At(out, 7) = self.scale
        /\ \A i \in 1..VLen(self.digits) : I16At(out, 7 + 2 * i) = VAt(self.digits, i)

\* C3: to_sql of NaN into a sink that takes every write writes exactly
\* 00 00 00 00 C0 00 00 00.
C3_NaNBytes ==
    (NumericEncoded /\ sink.kind = "vec" /\ self = NaN) =>
        /\ ret = Ok(IsNullNo)
        /\ VSame(out, Vec(<<0, 0, 0, 0, 192, 0, 0, 0>>))

C3_Witness ==
    /\ NumericEncoded /\ pc = "done" /\ sink.kind = "vec" /\ self = NaN
    /\ VLen(out) = 8

\* C4: a buffer with its header and all its digit groups whose sign field s
\* is none of 0, 0x4000, 0xC000 decodes to the error InvalidNumericSign(s).
C4_InvalidSign ==
    (NumericDecoded /\ HasHeader /\ HasDigits
        /\ U16At(bytes.val, 5) \notin KnownSigns)
        => ret = Err(InvalidNumericSign(U16At(bytes.val, 5)))

C4_Witness ==
    /\ NumericDecoded /\ HasHeader /\ HasDigits
    /\ U16At(bytes.val, 1) > 0
    /\ U16At(bytes.val, 5) = 4660
    /\ ret = Err(InvalidNumericSign(4660))

\* C5: from_sql of an absent buffer fails with UnexpectedNullError, for f32,
\* f64 and PgNumeric, with nothing read.
C5_MissingValue ==
    (pc = "done" /\ call \in {"f32::from_sql", "f64::from_sql", "PgNumeric::from_sql"}
        /\ ~bytes.some)
        => (ret = Err(UnexpectedNullError) /\ consumed = 0)

C5_Witness ==
    /\ pc = "done" /\ call = "PgNumeric::from_sql" /\ bytes = None
    /\ ~ret.ok /\ ret.err.kind = "UnexpectedNullError"

\* C6: a present buffer that is too short decodes to the short-read error
\* and to no value: decimal under 8 bytes or under 8 + 2*ndigits bytes
\* whatever the sign field, f32 under 4 bytes, f64 under 8 bytes.
C6_Truncated ==
    /\ (NumericDecoded /\ ~HasHeader) => ret = Truncated
    /\ (NumericDecoded /\ HasHeader /\ ~HasDigits) => ret = Truncated
    /\ (pc = "done" /\ call = "f32::from_sql" /\ bytes.some /\ VLen(bytes.val) < 4)
          => ret = Truncated
    /\ (pc = "done" /\ call = "f64::from_sql" /\ bytes.some /\ VLen(bytes.val) < 8)
          => ret = Truncated

C6_Witness ==
    /\ NumericDecoded /\ HasHeader /\ ~HasDigits
    /\ VLen(bytes.val) > 8
    /\ U16At(bytes.val, 5) = 0
    /\ ret = Truncated

\* C7: to_sql of an f32 (f64) writes the 4 (8) big-endian bytes of its bit
\* pattern, 1.0f32 as 3F 80 00 00, and from_sql of them gives the pattern back.
BitsAsBytes(v, o) ==
    /\ VLen(o) * 8 = Len(v)
    /\ \A i \in 1..Len(v) :
          v[i] = (VAt(o, ((i - 1) \div 8) + 1) \div (2 ^ (7 - ((i - 1) % 8)))) % 2
    /\ \A k \in 1..VLen(o) : VAt(o, k) \in 0..255

C7_FloatRoundTrip ==
    /\ (call = "f32::to_sql" /\ pc # "start" /\ sink.kind = "vec") =>
          /\ VLen(out) = 4 /\ BitsAsBytes(self, out)
          /\ (self = F32One => out.head = <<63, 128, 0, 0>>)
          /\ (pc = "read_back" => back = Ok(self))
    /\ (call = "f64::to_sql" /\ pc # "start" /\ sink.kind = "vec") =>
          /\ VLen(out) = 8 /\ BitsAsBytes(self, out)
          /\ (pc = "read_back" => back = Ok(self))

C7_Witness ==
    /\ call = "f64::to_sql" /\ pc = "read_back" /\ sink.kind = "vec"
    /\ \A i \in 1..12 : self[i] = 1
    /\ self[64] = 1
    /\ back.ok /\ VAt(out, 1) = 255 /\ VAt(out, 8) # 255

\* C8: the sign is looked at only after all ndigits digit groups are read:
\* an unknown sign with digit groups missing gives the short-read error, and
\* InvalidNumericSign comes only with the whole message consumed.
C8_SignCheckedLast ==
    /\ (NumericDecoded /\ HasHeader /\ ~HasDigits
          /\ U16At(bytes.val, 5) \notin KnownSigns) => ret = Truncated
    /\ (NumericDecoded /\ ~ret.ok /\ ret.err.kind = "InvalidNumericSign") =>
          /\ HasHeader /\ HasDigits
          /\ consumed = 8 + 2 * U16At(bytes.val, 1)

C8_Witness ==
    /\ NumericDecoded /\ HasHeader /\ ~HasDigits
    /\ U16At(bytes.val, 5) = 4660
    /\ ret = Truncated
    /\ VLen(bytes.val) >= 10 /\ consumed = VLen(bytes.val)

\* C9: sign 0xC000 with all ndigits digit groups present decodes to NaN
\* whatever ndigits, weight and scale are; with groups missing it is the
\* short-read error.
C9_NaNDiscardsFields ==
    (NumericDecoded /\ HasHeader /\ U16At(bytes.val, 5) = 49152) =>
        /\ HasDigits => ret = Ok(NaN)
        /\ ~HasDigits => ret = Truncated

C9_Witness ==
    /\ NumericDecoded /\ HasHeader /\ HasDigits
    /\ U16At(bytes.val, 5) = 49152
    /\ U16At(bytes.val, 1) > 1 /\ I16At(bytes.val, 3) # 0 /\ U16At(bytes.val, 7) # 0
    /\ ret = Ok(NaN)

\* C10.  A to_sql call with its outcome.
Encoded == call \in {"f32::to_sql", "f64::to_sql", "PgNumeric::to_sql"} /\ pc = "done"
\* Bytes per write call.
Width == CASE call = "f32::to_sql" -> 4 [] call = "f64::to_sql" -> 8 [] OTHER -> 2
\* The number of bytes the value takes on the wire.
WireLen ==
    CASE call = "f32::to_sql" -> 4
      [] call = "f64::to_sql" -> 8
      [] OTHER -> 8 + 2 * (IF self.tag = "NaN" THEN 0 ELSE VLen(self.digits))
\* What the same value writes when every write is taken.
Whole ==
    CASE call = "f32::to_sql" -> f32_to_sql(self, VecSink).out
      [] call = "f64::to_sql" -> f64_to_sql(self, VecSink).out
      [] OTHER -> PgNumeric_to_sql(self, VecSink).out
TakesAll == sink.kind = "vec" \/ sink.room >= WireLen
\* The first write the sink fails, counted from 1.
FailedWrite == (sink.room \div Width) + 1

C10_Outcome ==
    /\ ret # Ok(IsNullYes)
    /\ TakesAll => (ret = Ok(IsNullNo) /\ VLen(out) = WireLen /\ VSame(out, Whole))
    /\ ret.ok => TakesAll
    /\ ~ret.ok =>
          /\ ret = Err(SinkError(sink))
          /\ calls = FailedWrite
          /\ VLen(out) < WireLen
          /\ VSame(out, VTake(Whole, VLen(out)))

\* C10 as claimed: on a failed write the sink holds exactly the fields that
\* precede the failed one.
C10_OnlyWholeFields ==
    Encoded => (C10_Outcome /\ (~ret.ok => VLen(out) = (FailedWrite - 1) * Width))

\* C10 amended: ... the sink holds the fields that precede the failed one
\* and at most a leading part of the failed field, which a sink that refuses
\* the write whole leaves empty; nothing of a later field.
C10_SinkFailure ==
    Encoded =>
        /\ C10_Outcome
        /\ ~ret.ok =>
              /\ (FailedWrite - 1) * Width <= VLen(out)
              /\ VLen(out) < FailedWrite * Width
              /\ sink.kind = "failing" => VLen(out) = (FailedWrite - 1) * Width

C10_Witness ==
    /\ Encoded /\ call = "PgNumeric::to_sql" /\ sink.kind = "slice"
    /\ ~ret.ok /\ calls = 5 /\ VLen(out) = 9

====
